---- MODULE Spec2Model ----
(***************************************************************************)
(* Coastline reconstruction of the FWG4 map generator:                     *)
(*   src/src/utils/coastline.ts (latest revision, lines 476-1003) and the  *)
(*   generateMap callback of MapGenerator (src/unnamed/part_003, 735-836). *)
(*                                                                         *)
(* Numbers are fixed-point: one map unit (pixel) is 1000, so that the      *)
(* 2-decimal rounding of toFixed(2) is a real operation on the values.     *)
(***************************************************************************)
EXTENDS Integers, Sequences, FiniteSets, TLC

\* ------------------------------------------------------------------ bounds
NumCells == 4          \* cells of the free-form mesh of SpecLabel
MaxSegs == 6           \* longest segment list handed to assembleBoundaryLoop
Cols == 3              \* columns of the grid mesh
Rows == 3              \* rows of the grid mesh
MaxRaised == 3         \* most cells that generateTerrain lifts above height 0
MaxLand == 4           \* most land cells of a classified grid mesh in SpecCoast
MaxSeaCells == 4       \* longest cell array handed to applySeaLevel alone
FineCols == 15         \* cells per row and per column of the fine mesh

\* --------------------------------------------------------------- constants
PRECISION == 2         \* coastline.ts:887, digits kept by toFixed
Undefined == 0 - 1     \* cell.featureId = undefined

\* n map units as a fixed-point number (thousandths)
Units(n) == n * 1000

\* labelOcean / labelIslands: centroid within 10 units of a map edge
BorderTolerance == Units(10)

\* ------------------------------------------------------------ small helpers
Range(s) == {s[i] : i \in 1..Len(s)}

\* an array given element by element, as a sequence value
ArrayOf(f) == SubSeq(f, 1, Len(f))

\* the positions 1..Len(seq), as a sequence
Indices(seq) == ArrayOf([k \in 1..Len(seq) |-> k])

\* cells.find(c => c.id === id): index of the first match, 0 when none
FindCell(cs, id) ==
  IF \E i \in 1..Len(cs) : cs[i].id = id
  THEN CHOOSE i \in 1..Len(cs) : cs[i].id = id /\ \A j \in 1..(i-1) : cs[j].id # id
  ELSE 0

VARIABLES
  pc,               \* position in the operation under check
  cells,            \* the Cell[] array, mutated in place
  features,         \* the Feature[] being built and handed on
  coastalSegments,  \* the CoastlineSegment[] of findCoastalEdges
  loopIn,           \* argument of assembleBoundaryLoop
  loopOut,          \* its returned path
  params,           \* TerrainParams of the MapGenerator component
  calls,            \* the steps of generateMap completed so far, in order
  carvedCount,      \* carvedCount of the border-carving step
  pubFeatures,      \* React state set by setFeatures
  pubCells,         \* React state set by setCells
  countedEdges,     \* the edgeMap local of findCoastalEdges, after its first loop
  repeatSegments,   \* what a second findCoastalEdges call on the same cells returns
  consoleLog,       \* console.warn / console.error output of the function under check
  cellsBefore,      \* the cell array as it was handed to the function under check
  blobs             \* the blobs local of generateTerrain

vars == <<pc, cells, features, coastalSegments, loopIn, loopOut,
          params, calls, carvedCount, pubFeatures, pubCells,
          countedEdges, repeatSegments, consoleLog, cellsBefore, blobs>>

\* the state of a generation pass, untouched when one function is run alone
passVars == <<params, calls, carvedCount, pubFeatures, pubCells>>

\* DEFAULT_PARAMS.seaLevel: 0.15 in thousandths
DefaultSeaLevel == 150

NoPass ==
  /\ params = [seaLevel |-> DefaultSeaLevel, continentMode |-> TRUE,
               waterMargin |-> 0]
  /\ calls = <<>>
  /\ carvedCount = 0
  /\ pubFeatures = <<>>
  /\ pubCells = <<>>

\* what is observed of single calls, untouched by the steps that do not make them
probeVars == <<countedEdges, repeatSegments, consoleLog, cellsBefore, blobs>>

\* new Map(): no key, no count
NoEdgeMap == [keys |-> <<>>, count |-> <<>>]

NoProbe ==
  /\ countedEdges = NoEdgeMap
  /\ repeatSegments = <<>>
  /\ consoleLog = <<>>
  /\ cellsBefore = <<>>
  /\ blobs = <<>>

\* ============================================================ labelFeatures
\* mutant: the fill follows neighbours of either type
PushableAnyType(cs, n, wantLand, visited) ==
  n # 0 /\ cs[n].id \notin visited

\* if (neighbor && [!]neighbor.isLand && !visited.has(neighbor.id))
Pushable(cs, n, wantLand, visited) ==
  n # 0 /\ cs[n].isLand = wantLand /\ cs[n].id \notin visited

\* inner for-loop of a flood fill: push the unvisited neighbours of the wanted
\* type, marking them visited as they are pushed
RECURSIVE PushNeighbors(_, _, _, _, _, _)
PushNeighbors(cs, nbrs, k, wantLand, visited, queue) ==
  IF k > Len(nbrs) THEN [visited |-> visited, queue |-> queue]
  ELSE LET n == FindCell(cs, nbrs[k]) IN
       IF Pushable(cs, n, wantLand, visited)
       THEN PushNeighbors(cs, nbrs, k + 1, wantLand, visited \cup {cs[n].id}, Append(queue, n))
       ELSE PushNeighbors(cs, nbrs, k + 1, wantLand, visited, queue)

\* the cells of the queue shifted one after the other, each pushing its
\* unvisited neighbours behind the cells already queued
RECURSIVE PushQueue(_, _, _, _, _, _)
PushQueue(cs, queue, j, wantLand, visited, pushed) ==
  IF j > Len(queue) THEN [visited |-> visited, queue |-> pushed]
  ELSE LET p == PushNeighbors(cs, cs[queue[j]].neighbors, 1, wantLand, visited, pushed)
       IN PushQueue(cs, queue, j + 1, wantLand, p.visited, p.queue)

\* while (queue.length > 0) { shift; record; label; push neighbours }: the
\* queue is first in, first out, so the cells that are queued now are all
\* shifted, recorded and labelled before any cell that they push
RECURSIVE FloodFill(_, _, _, _, _, _)
FloodFill(cs, queue, visited, out, fid, wantLand) ==
  IF queue = <<>> THEN [cells |-> cs, visited |-> visited, out |-> out]
  ELSE LET p        == PushQueue(cs, queue, 1, wantLand, visited, <<>>)
           shifted  == Range(queue)
           labelled == ArrayOf([i \in 1..Len(cs) |->
                                 IF i \in shifted THEN [cs[i] EXCEPT !.featureId = fid]
                                 ELSE cs[i]])
       IN FloodFill(labelled, p.queue, p.visited,
                    out \o ArrayOf([j \in 1..Len(queue) |-> cs[queue[j]].id]), fid, wantLand)

NearBorder(cell, w, h) ==
  \/ cell.centroid[1] <= BorderTolerance
  \/ cell.centroid[1] >= w - BorderTolerance
  \/ cell.centroid[2] <= BorderTolerance
  \/ cell.centroid[2] >= h - BorderTolerance

\* mutant: only the left and right edges seed the ocean
BorderWaterCellsLeftRight(cs, w, h) ==
  {i \in 1..Len(cs) : ~cs[i].isLand /\ (\/ cs[i].centroid[1] <= BorderTolerance
                                        \/ cs[i].centroid[1] >= w - BorderTolerance)}

\* cells.filter(...): indices of the water cells near an edge (array order is
\* restored by the loop below, which scans the indices in ascending order)
BorderWaterCells(cs, w, h) ==
  {i \in 1..Len(cs) : ~cs[i].isLand /\ NearBorder(cs[i], w, h)}

\* for (const startCell of borderWaterCells): from index k on, the next seed
\* that is not yet visited starts a fill
RECURSIVE OceanLoop(_, _, _, _, _, _)
OceanLoop(cs, seeds, k, visited, out, fid) ==
  LET rest == {j \in seeds : j >= k /\ cs[j].id \notin visited}
  IN IF rest = {} THEN [cells |-> cs, visited |-> visited, out |-> out]
     ELSE LET n == CHOOSE j \in rest : \A o \in rest : j <= o
              r == FloodFill(cs, <<n>>, visited \cup {cs[n].id}, out, fid, FALSE)
          IN OceanLoop(r.cells, seeds, n + 1, r.visited, r.out, fid)

\* mutant: the ocean is never seeded
LabelOceanUnseeded(cs, w, h, featureId) ==
  [cells |-> cs,
   feature |-> [id |-> featureId, type |-> "ocean", land |-> FALSE, border |-> TRUE,
                size |-> 0, cells |-> <<>>, hasBoundary |-> FALSE, boundary |-> <<>>]]

LabelOcean(cs, w, h, featureId) ==
  LET r == OceanLoop(cs, BorderWaterCells(cs, w, h), 1, {}, <<>>, featureId)
  IN [cells |-> r.cells,
      feature |-> [id |-> featureId, type |-> "ocean", land |-> FALSE, border |-> TRUE,
                   size |-> Len(r.out), cells |-> r.out,
                   hasBoundary |-> FALSE, boundary |-> <<>>]]

\* for (const cell of cells) of labelLakes, from array index k on
\* for (const cell of cells): from index k on, the next water cell that is
\* neither visited nor labelled starts a lake
RECURSIVE LakeLoop(_, _, _, _, _)
LakeLoop(cs, k, visited, lakes, nextFeatureId) ==
  LET rest == {j \in k..Len(cs) : /\ ~cs[j].isLand
                                  /\ cs[j].id \notin visited
                                  /\ cs[j].featureId = Undefined}
  IN IF rest = {} THEN [cells |-> cs, features |-> lakes]
     ELSE LET n == CHOOSE j \in rest : \A o \in rest : j <= o
              r == FloodFill(cs, <<n>>, visited \cup {cs[n].id}, <<>>, nextFeatureId, FALSE)
              f == [id |-> nextFeatureId, type |-> "lake", land |-> FALSE, border |-> FALSE,
                    size |-> Len(r.out), cells |-> r.out,
                    hasBoundary |-> FALSE, boundary |-> <<>>]
          IN LakeLoop(r.cells, n + 1, r.visited, Append(lakes, f), nextFeatureId + 1)

\* mutant: the lake scan forgets that ocean cells are already labelled
RECURSIVE LakeLoopRelabel(_, _, _, _, _)
LakeLoopRelabel(cs, k, visited, lakes, nextFeatureId) ==
  IF k > Len(cs) THEN [cells |-> cs, features |-> lakes]
  ELSE IF cs[k].isLand \/ cs[k].id \in visited
       THEN LakeLoopRelabel(cs, k + 1, visited, lakes, nextFeatureId)
       ELSE LET r == FloodFill(cs, <<k>>, visited \cup {cs[k].id}, <<>>, nextFeatureId, FALSE)
                f == [id |-> nextFeatureId, type |-> "lake", land |-> FALSE, border |-> FALSE,
                      size |-> Len(r.out), cells |-> r.out,
                      hasBoundary |-> FALSE, boundary |-> <<>>]
            IN LakeLoopRelabel(r.cells, k + 1, r.visited, Append(lakes, f), nextFeatureId + 1)

LabelLakesRelabel(cs, startFeatureId) == LakeLoopRelabel(cs, 1, {}, <<>>, startFeatureId)

LabelLakes(cs, startFeatureId) == LakeLoop(cs, 1, {}, <<>>, startFeatureId)

\* islandCells.some(... centroid within tolerance of an edge ...)
TouchesBorder(cs, islandCells, w, h) ==
  \E k \in 1..Len(islandCells) :
     LET i == FindCell(cs, islandCells[k]) IN i # 0 /\ NearBorder(cs[i], w, h)

\* for (const cell of cells): from index k on, the next land cell that is
\* neither visited nor labelled starts an island
RECURSIVE IslandLoop(_, _, _, _, _, _, _)
IslandLoop(cs, k, visited, islands, nextFeatureId, w, h) ==
  LET rest == {j \in k..Len(cs) : /\ cs[j].isLand
                                  /\ cs[j].id \notin visited
                                  /\ cs[j].featureId = Undefined}
  IN IF rest = {} THEN [cells |-> cs, features |-> islands]
     ELSE LET n == CHOOSE j \in rest : \A o \in rest : j <= o
              r == FloodFill(cs, <<n>>, visited \cup {cs[n].id}, <<>>, nextFeatureId, TRUE)
              f == [id |-> nextFeatureId, type |-> "island", land |-> TRUE,
                    border |-> TouchesBorder(r.cells, r.out, w, h),
                    size |-> Len(r.out), cells |-> r.out,
                    hasBoundary |-> FALSE, boundary |-> <<>>]
          IN IslandLoop(r.cells, n + 1, r.visited, Append(islands, f), nextFeatureId + 1, w, h)

LabelIslands(cs, w, h, startFeatureId) == IslandLoop(cs, 1, {}, <<>>, startFeatureId, w, h)

\* mutant: the featureId values of the previous run are kept
LabelFeaturesNoReset(cs, w, h) ==
  LET ocean   == LabelOcean(cs, w, h, 0)
      lakes   == LabelLakes(ocean.cells, 1)
      islands == LabelIslands(lakes.cells, w, h, 1 + Len(lakes.features))
  IN [cells |-> islands.cells,
      features |-> <<ocean.feature>> \o lakes.features \o islands.features]

\* reset every featureId, then ocean (id 0), lakes, islands
LabelFeatures(cs, w, h) ==
  LET reset   == [i \in 1..Len(cs) |-> [cs[i] EXCEPT !.featureId = Undefined]]
      ocean   == LabelOcean(reset, w, h, 0)
      lakes   == LabelLakes(ocean.cells, 1)
      islands == LabelIslands(lakes.cells, w, h, 1 + Len(lakes.features))
  IN [cells |-> islands.cells,
      features |-> <<ocean.feature>> \o lakes.features \o islands.features]


\* ===================================================== assembleBoundaryLoop
\* Number.prototype.toFixed(digits) followed by Number(...): the value rounded
\* to that many decimals (half away from zero), still in thousandths
ToFixed(v, digits) ==
  LET step == 10 ^ (3 - digits) IN
  IF v >= 0 THEN ((v + step \div 2) \div step) * step
  ELSE 0 - (((0 - v) + step \div 2) \div step) * step

\* mutant: vertex keys keep every digit of the coordinates
NormExact(p) == p

\* norm([x, y]): the vertex key "x.xx,y.yy", kept as the pair of rounded numbers
Norm(p) == <<ToFixed(p[1], PRECISION), ToFixed(p[2], PRECISION)>>

\* prevKey = null
NoKey == <<Undefined, Undefined>>

\* k1 or k2 of one segment has been added to `seen` by the other
SameKeys(s1, s2) ==
  \/ Norm(s1.start) = Norm(s2.start) /\ Norm(s1.end) = Norm(s2.end)
  \/ Norm(s1.start) = Norm(s2.end) /\ Norm(s1.end) = Norm(s2.start)

\* 1) dedupe by normalized keys, in either orientation: a segment is kept
\* when neither of its keys was added by an earlier segment, that is when it
\* is the first of the list with its pair of keys
Dedupe(segments) ==
  LET kept == SelectSeq(Indices(segments),
                        LAMBDA k : \A j \in 1..(k - 1) : ~SameKeys(segments[j], segments[k]))
  IN ArrayOf([n \in 1..Len(kept) |-> segments[kept[n]]])

\* the pushes of step 2 in program order: for each deduplicated segment
\* adj.get(k1).push(end), then adj.get(k2).push(start)
AdjPushes(deduped) ==
  ArrayOf([n \in 1..(2 * Len(deduped)) |->
             LET seg == deduped[(n + 1) \div 2] IN
             IF n % 2 = 1 THEN [key |-> Norm(seg.start), pt |-> seg.end]
             ELSE [key |-> Norm(seg.end), pt |-> seg.start]])

\* mutant: every vertex gets every pushed point as a neighbour
BuildAdjComplete(deduped) ==
  LET pushes == AdjPushes(deduped)
      firsts == SelectSeq(Indices(pushes),
                          LAMBDA n : \A m \in 1..(n - 1) : pushes[m].key # pushes[n].key)
  IN [keys |-> ArrayOf([n \in 1..Len(firsts) |-> pushes[firsts[n]].key]),
      nbrs |-> [key \in {pushes[n].key : n \in 1..Len(pushes)} |->
                  ArrayOf([n \in 1..Len(pushes) |-> pushes[n].pt])]]

\* 2) build Map<vertexKey, neighborPoints>: the keys in insertion order (k1
\* before k2, segment by segment) and the neighbour list of each key
BuildAdj(deduped) ==
  LET pushes == AdjPushes(deduped)
      firsts == SelectSeq(Indices(pushes),
                          LAMBDA n : \A m \in 1..(n - 1) : pushes[m].key # pushes[n].key)
  IN [keys |-> ArrayOf([n \in 1..Len(firsts) |-> pushes[firsts[n]].key]),
      nbrs |-> [key \in {pushes[n].key : n \in 1..Len(pushes)} |->
                  LET mine == SelectSeq(pushes, LAMBDA q : q.key = key)
                  IN ArrayOf([n \in 1..Len(mine) |-> mine[n].pt])]]

\* 3) endpoints: the keys of degree 1, in insertion order
Endpoints(adj) == SelectSeq(adj.keys, LAMBDA key : Len(adj.nbrs[key]) = 1)

\* mutant: the vertices are sorted by x first, then by y
LowestKeyByX(adj) ==
  CHOOSE a \in Range(adj.keys) :
    \A b \in Range(adj.keys) : a[1] < b[1] \/ (a[1] = b[1] /\ a[2] <= b[2])

\* verts.sort((a, b) => a.y - b.y || a.x - b.x)[0]: keys are distinct, so the
\* first element of the sorted array is the unique minimum
LowestKey(adj) ==
  CHOOSE a \in Range(adj.keys) :
    \A b \in Range(adj.keys) : a[2] < b[2] \/ (a[2] = b[2] /\ a[1] <= b[1])

\* mutant: the start of the earlier revision, the lowest vertex in every case
StartKeyLowest(adj) == LowestKey(adj)

\* 4) pick start: first endpoint if two exist, else the lowest vertex
StartKey(adj) ==
  IF Len(Endpoints(adj)) >= 2 THEN Endpoints(adj)[1] ELSE LowestKey(adj)

\* neighbors.map(norm).find(k => k !== prevKey && !visited.has(k)), from index i
RECURSIVE FindNext(_, _, _, _)
FindNext(nbrs, i, prevKey, visited) ==
  IF i > Len(nbrs) THEN NoKey
  ELSE IF Norm(nbrs[i]) # prevKey /\ Norm(nbrs[i]) \notin visited THEN Norm(nbrs[i])
  ELSE FindNext(nbrs, i + 1, prevKey, visited)

\* mutant: the walk of the earlier revision, which keeps no visited set, with
\* its safety bound moved to twice the number of segments
RECURSIVE WalkLateSafety(_, _, _, _, _, _, _)
WalkLateSafety(adj, nSegs, startKey, prevKey, currKey, visited, path) ==
  LET path1   == Append(path, currKey)
      nextKey == FindNext(adj.nbrs[currKey], 1, prevKey, {})
  IN IF nextKey = NoKey THEN path1
     ELSE IF Len(path1) > 2 * nSegs THEN path1
     ELSE IF nextKey # startKey
          THEN WalkLateSafety(adj, nSegs, startKey, currKey, nextKey, visited, path1)
          ELSE path1

\* 5) the do ... while walk
RECURSIVE Walk(_, _, _, _, _, _, _)
Walk(adj, nSegs, startKey, prevKey, currKey, visited, path) ==
  LET path1    == Append(path, currKey)
      visited1 == visited \cup {currKey}
      nextKey  == FindNext(adj.nbrs[currKey], 1, prevKey, visited1)
  IN IF nextKey = NoKey THEN path1
     ELSE IF Len(path1) > nSegs + 2 THEN path1
     ELSE IF nextKey # startKey /\ nextKey \notin visited1
          THEN Walk(adj, nSegs, startKey, currKey, nextKey, visited1, path1)
          ELSE path1

AssembleBoundaryLoop(segments) ==
  IF Len(segments) = 0 THEN <<>>
  ELSE LET deduped == Dedupe(segments)
           adj     == BuildAdj(deduped)
       IN IF Len(deduped) = 0 THEN <<>>
          ELSE Walk(adj, Len(deduped), StartKey(adj), NoKey, StartKey(adj), {}, <<>>)

\* the console output of assembleBoundaryLoop: the function has no
\* console call (and no throw statement) on any path
AssembleBoundaryLoopLog(segments) == <<>>

\* ========================================================= findCoastalEdges
\* waterCellId of a map-border segment
MapBorderId == 0 - 1

\* "x.xx,y.yy" with toFixed(2), read back with Number
Fixed2(p) == <<ToFixed(p[1], 2), ToFixed(p[2], 2)>>

\* normalized edge key: smaller point first (compared unrounded), rounded text
EdgeKey(p, q) ==
  IF p[1] < q[1] \/ (p[1] = q[1] /\ p[2] < q[2])
  THEN <<Fixed2(p), Fixed2(q)>>
  ELSE <<Fixed2(q), Fixed2(p)>>

NextIndex(polygon, i) == (i % Len(polygon)) + 1

\* the (cell, polygon[i], polygon[(i + 1) % n]) triples that the two
\* for-loops over land-cell polygons visit, in visiting order
RECURSIVE LandEdges(_, _)
LandEdges(cs, k) ==
  LET rest == {j \in k..Len(cs) : cs[j].isLand /\ Len(cs[j].polygon) >= 3}
  IN IF rest = {} THEN <<>>
     ELSE LET n == CHOOSE j \in rest : \A o \in rest : j <= o
          IN [i \in 1..Len(cs[n].polygon) |->
                [cell |-> n, start |-> cs[n].polygon[i],
                 end |-> cs[n].polygon[NextIndex(cs[n].polygon, i)]]]
             \o LandEdges(cs, n + 1)

\* edgeMap after the first loop: its keys in insertion order and the number
\* of land edges that produced each key
CountEdges(edges) ==
  LET keyOf  == ArrayOf([k \in 1..Len(edges) |-> EdgeKey(edges[k].start, edges[k].end)])
      firsts == SelectSeq(Indices(edges), LAMBDA k : \A j \in 1..(k - 1) : keyOf[j] # keyOf[k])
  IN [keys |-> ArrayOf([n \in 1..Len(firsts) |-> keyOf[firsts[n]]]),
      count |-> [key \in {keyOf[k] : k \in 1..Len(edges)} |->
                   Cardinality({k \in 1..Len(edges) : keyOf[k] = key})]]

\* polygon.some(...): the polygon has the edge a-b with exactly these numbers
HasEdge(polygon, a, b) ==
  \E i \in 1..Len(polygon) :
     \/ polygon[i] = a /\ polygon[NextIndex(polygon, i)] = b
     \/ polygon[i] = b /\ polygon[NextIndex(polygon, i)] = a

\* cells.find(land cell whose polygon contains the edge): index or 0
FindLandCell(cs, start, end) ==
  LET hits == {i \in 1..Len(cs) : cs[i].isLand /\ HasEdge(cs[i].polygon, start, end)}
  IN IF hits = {} THEN 0 ELSE CHOOSE i \in hits : \A j \in hits : i <= j

\* first water neighbour of the land cell whose polygon has the edge: index or 0
RECURSIVE FindAdjacentWaterCell(_, _, _, _, _)
FindAdjacentWaterCell(cs, land, k, edgeStart, edgeEnd) ==
  IF k > Len(cs[land].neighbors) THEN 0
  ELSE LET n == FindCell(cs, cs[land].neighbors[k]) IN
       IF n # 0 /\ ~cs[n].isLand /\ HasEdge(cs[n].polygon, edgeStart, edgeEnd) THEN n
       ELSE FindAdjacentWaterCell(cs, land, k + 1, edgeStart, edgeEnd)

\* for (const [edgeKey, count] of edgeMap.entries()) if (count === 1) ...:
\* start and end are read back from the key; a segment is pushed when a land
\* cell has exactly that edge and one of its water neighbours has it too
UniqueEdgeSegments(cs, edgeMap) ==
  LET tried == [k \in 1..Len(edgeMap.keys) |->
                  LET key   == edgeMap.keys[k]
                      land  == FindLandCell(cs, key[1], key[2])
                      water == IF land = 0 THEN 0
                               ELSE FindAdjacentWaterCell(cs, land, 1, key[1], key[2])
                  IN [push |-> edgeMap.count[key] = 1 /\ land # 0 /\ water # 0,
                      start |-> key[1], end |-> key[2], land |-> land, water |-> water]]
      pushed == SelectSeq(tried, LAMBDA t : t.push)
  IN [n \in 1..Len(pushed) |->
        [start |-> pushed[n].start, end |-> pushed[n].end,
         landCellId |-> cs[pushed[n].land].id,
         waterCellId |-> cs[pushed[n].water].id,
         featureId |-> Undefined]]

OnBorder(p, w, h) == p[1] = 0 \/ p[1] = w \/ p[2] = 0 \/ p[2] = h

\* normalizedStart / normalizedEnd: exact border coordinates
NormalizedPoint(p, w, h) ==
  << IF p[1] = 0 THEN 0 ELSE IF p[1] = w THEN w ELSE p[1],
     IF p[2] = 0 THEN 0 ELSE IF p[2] = h THEN h ELSE p[2] >>

\* isBorderEdge: either end point lies exactly on the map border
IsBorderEdge(e, w, h) == OnBorder(e.start, w, h) \/ OnBorder(e.end, w, h)

\* the explicit map border edges, in loop order
BorderSegments(cs, edges, w, h) ==
  LET border == SelectSeq(edges, LAMBDA e : IsBorderEdge(e, w, h))
  IN [n \in 1..Len(border) |->
        [start |-> NormalizedPoint(border[n].start, w, h),
         end |-> NormalizedPoint(border[n].end, w, h),
         landCellId |-> cs[border[n].cell].id,
         waterCellId |-> MapBorderId,
         featureId |-> cs[border[n].cell].featureId]]

FindCoastalEdges(cs, w, h) ==
  LET edges   == LandEdges(cs, 1)
      edgeMap == CountEdges(edges)
  IN UniqueEdgeSegments(cs, edgeMap) \o BorderSegments(cs, edges, w, h)

\* ====================================================== buildCoastlinePaths
\* segmentsByFeature.get(id): the segments whose land cell carries that
\* featureId now, in their original order
FeatureSegments(segments, cs, id) ==
  SelectSeq(segments,
            LAMBDA seg : LET c == FindCell(cs, seg.landCellId)
                         IN c # 0 /\ cs[c].featureId # Undefined /\ cs[c].featureId = id)

BuildCoastlinePaths(segments, fs, cs) ==
  [k \in 1..Len(fs) |->
     IF fs[k].type = "ocean" THEN fs[k]
     ELSE LET featureSegments == FeatureSegments(segments, cs, fs[k].id) IN
          IF Len(featureSegments) > 0
          THEN [fs[k] EXCEPT !.hasBoundary = TRUE,
                             !.boundary = AssembleBoundaryLoop(featureSegments)]
          ELSE fs[k]]

\* ============================================================ applySeaLevel
\* heights.sort((a, b) => a - b)
RECURSIVE SortAscending(_)
SortAscending(seq) ==
  IF seq = <<>> THEN <<>>
  ELSE LET m == CHOOSE i \in 1..Len(seq) : \A j \in 1..Len(seq) : seq[i] <= seq[j]
       IN <<seq[m]>> \o SortAscending(SubSeq(seq, 1, m - 1) \o SubSeq(seq, m + 1, Len(seq)))

Min(a, b) == IF a <= b THEN a ELSE b

\* mutant: the target sea level is used in either mode
CalculateFixedSeaLevel(cs, targetSeaLevel, continentMode) == targetSeaLevel * 10

\* mutant: without a positive height the level falls below zero
CalculateSeaLevelBelowFlat(cs, targetSeaLevel, continentMode) ==
  IF \A i \in 1..Len(cs) : cs[i].height <= 0 THEN 0 - 10
  ELSE IF continentMode THEN targetSeaLevel * 8 ELSE targetSeaLevel * 10

\* calculateAdaptiveSeaLevel.  The result is ten times finer than a height
\* (in ten-thousandths), so that percentile25 * 0.8 stays exact.
CalculateAdaptiveSeaLevel(cs, targetSeaLevel, continentMode) ==
  LET all     == [i \in 1..Len(cs) |-> cs[i].height]
      heights == SelectSeq(all, LAMBDA x : x > 0)
  IN IF Len(heights) = 0 THEN targetSeaLevel * 10
     ELSE IF continentMode
          THEN LET sortedHeights == SortAscending(heights)
                   percentile25  == sortedHeights[(Len(sortedHeights) \div 4) + 1]
               IN Min(targetSeaLevel * 10, percentile25 * 8)
          ELSE targetSeaLevel * 10

\* mutant: a cell exactly at the sea level counts as land
ApplySeaLevelInclusive(cs, seaLevel, continentMode) ==
  LET adaptiveSeaLevel == CalculateAdaptiveSeaLevel(cs, seaLevel, continentMode)
  IN [i \in 1..Len(cs) |->
        IF cs[i].height * 10 >= adaptiveSeaLevel
        THEN [cs[i] EXCEPT !.isLand = TRUE]
        ELSE [cs[i] EXCEPT !.isLand = FALSE, !.height = 0]]

\* cell.isLand = cell.height > adaptiveSeaLevel; water cells get height 0
ApplySeaLevel(cs, seaLevel, continentMode) ==
  LET adaptiveSeaLevel == CalculateAdaptiveSeaLevel(cs, seaLevel, continentMode)
  IN [i \in 1..Len(cs) |->
        IF cs[i].height * 10 > adaptiveSeaLevel
        THEN [cs[i] EXCEPT !.isLand = TRUE]
        ELSE [cs[i] EXCEPT !.isLand = FALSE, !.height = 0]]

\* ============================================== generateMap: post-processing
\* mutant: the threshold is a thousandth of the cells
MinIslandCellsPerMille(cs) == Len(cs) \div 1000

\* MIN_ISLAND_CELLS = Math.floor(totalCells * 0.01)
MinIslandCells(cs) == Len(cs) \div 100

\* the features the tiny-island loop turns to water
TinyIslands(fs, cs) ==
  {k \in 1..Len(fs) : /\ fs[k].type = "island"
                      /\ ~fs[k].border
                      /\ Len(fs[k].cells) < MinIslandCells(cs)}

\* cell.isLand = false; cell.height = 0 for every cell of a tiny island
RemoveTinyIslands(fs, cs) ==
  LET doomed == UNION {Range(fs[k].cells) : k \in TinyIslands(fs, cs)}
  IN [i \in 1..Len(cs) |->
        IF cs[i].id \in doomed THEN [cs[i] EXCEPT !.isLand = FALSE, !.height = 0]
        ELSE cs[i]]

\* mutant: the bottom edge has no margin
InWaterMarginNoBottom(cell, waterMargin, w, h) ==
  \/ cell.centroid[1] < waterMargin
  \/ cell.centroid[1] > w - waterMargin
  \/ cell.centroid[2] < waterMargin

\* the border-carving test on the centroid
InWaterMargin(cell, waterMargin, w, h) ==
  \/ cell.centroid[1] < waterMargin
  \/ cell.centroid[1] > w - waterMargin
  \/ cell.centroid[2] < waterMargin
  \/ cell.centroid[2] > h - waterMargin

CarveBorder(cs, waterMargin, w, h) ==
  [i \in 1..Len(cs) |->
     IF InWaterMargin(cs[i], waterMargin, w, h) /\ cs[i].isLand
     THEN [cs[i] EXCEPT !.isLand = FALSE, !.height = 0]
     ELSE cs[i]]

\* mutant: the border is carved before the coastline paths are built
StepAfterCarveEarly(step) ==
  CASE step = "mesh"          -> "terrain"
    [] step = "terrain"       -> "seaLevel"
    [] step = "seaLevel"      -> "coastalEdges"
    [] step = "coastalEdges"  -> "labelFeatures"
    [] step = "labelFeatures" -> "borderCarving"
    [] step = "borderCarving" -> "postProcess"
    [] step = "postProcess"   -> "publish"
    [] step = "publish"       -> "done"

\* the statement order of the generateMap callback
StepAfter(step) ==
  CASE step = "mesh"          -> "terrain"
    [] step = "terrain"       -> "seaLevel"
    [] step = "seaLevel"      -> "coastalEdges"
    [] step = "coastalEdges"  -> "labelFeatures"
    [] step = "labelFeatures" -> "postProcess"
    [] step = "postProcess"   -> "borderCarving"
    [] step = "borderCarving" -> "publish"
    [] step = "publish"       -> "done"

\* ================================================== SpecLabel: labelFeatures
\* Free-form meshes: NumCells cells with ids 0..NumCells-1, any symmetric
\* neighbour relation drawn from a triangulated strip (cells i and j may be
\* neighbours when they are at most two apart), any land/water classification,
\* and a centroid either exactly on the edge tolerance or well inside the map.
LabelWidth  == Units(60)
LabelHeight == Units(60)

StripPairs == {pr \in (0..(NumCells - 1)) \X (0..(NumCells - 1)) :
                 pr[1] < pr[2] /\ pr[2] - pr[1] <= 2}

LabelCentroids == {<<Units(30), Units(50)>>, <<Units(11), Units(30)>>}

RECURSIVE SortedSeq(_)
SortedSeq(S) ==
  IF S = {} THEN <<>>
  ELSE LET m == CHOOSE x \in S : \A y \in S : x <= y IN <<m>> \o SortedSeq(S \ {m})

NeighborsOf(i, adj) ==
  SortedSeq({j \in 0..(NumCells - 1) : <<i, j>> \in adj \/ <<j, i>> \in adj})

\* the cell of a seed point near the map rectangle is clipped by it
\* (voronoi([0, 0, width, height])): a square around the seed that reaches
\* the nearest edge
LabelPolygon(c) ==
  LET half == Min(Min(c[1], LabelWidth - c[1]), Min(c[2], LabelHeight - c[2]))
  IN << <<c[1] - half, c[2] - half>>, <<c[1] + half, c[2] - half>>,
        <<c[1] + half, c[2] + half>>, <<c[1] - half, c[2] + half>> >>

LabelMesh(adj, land, cen) ==
  [i \in 1..NumCells |->
     [id |-> i - 1, centroid |-> cen[i], polygon |-> LabelPolygon(cen[i]),
      neighbors |-> NeighborsOf(i - 1, adj), height |-> 0,
      isLand |-> land[i], featureId |-> Undefined]]

LabelInit ==
  /\ NoPass
  /\ NoProbe
  /\ pc = "label"
  /\ features = <<>>
  /\ coastalSegments = <<>>
  /\ loopIn = <<>>
  /\ loopOut = <<>>
  /\ \E adj \in SUBSET StripPairs :
       \E land \in [1..NumCells -> BOOLEAN] :
         \E cen \in [1..NumCells -> LabelCentroids] :
            cells = LabelMesh(adj, land, cen)

LabelFeaturesCall ==
  /\ pc = "label"
  /\ LET r == LabelFeatures(cells, LabelWidth, LabelHeight) IN
       /\ cells' = r.cells
       /\ features' = r.features
  /\ pc' = "labelled"
  /\ UNCHANGED <<coastalSegments, loopIn, loopOut, passVars, probeVars>>

LabelNext == LabelFeaturesCall

SpecLabel == LabelInit /\ [][LabelNext]_vars

\* ---- notions the claims are stated in
CellIds == {cells[i].id : i \in 1..Len(cells)}

FeaturesWith(id) == {k \in 1..Len(features) : id \in Range(features[k].cells)}

Occurrences(seq, x) == Cardinality({k \in 1..Len(seq) : seq[k] = x})

\* least set of cell indices that contains S and is closed under going from a
\* member to a neighbour of the same land/water type, staying inside Within
RECURSIVE Reach(_, _, _, _)
Reach(cs, S, land, Within) ==
  LET T == S \cup {j \in Within : /\ cs[j].isLand = land
                                  /\ \E i \in S : cs[j].id \in Range(cs[i].neighbors)}
  IN IF T = S THEN S ELSE Reach(cs, T, land, Within)

IndicesOf(cs, ids) == {i \in 1..Len(cs) : cs[i].id \in ids}

\* C1: after labelFeatures every cell has a featureId, every cell id occurs
\* exactly once in the cells list of exactly one feature, and the features'
\* cells lists together are the whole cell set.
C1_Partition ==
  pc = "labelled" =>
    /\ \A i \in 1..Len(cells) : cells[i].featureId # Undefined
    /\ \A id \in CellIds :
         /\ Cardinality(FeaturesWith(id)) = 1
         /\ \A k \in FeaturesWith(id) : Occurrences(features[k].cells, id) = 1
    /\ UNION {Range(features[k].cells) : k \in 1..Len(features)} = CellIds

C1_Witness ==
  /\ pc = "labelled"
  /\ Len(features) >= 3
  /\ \E k \in 1..Len(features) : features[k].type = "lake" /\ Len(features[k].cells) >= 2
  /\ Len(features[1].cells) >= 1

\* C2: the Ocean feature holds exactly the water cells reachable through
\* water neighbours from a water cell whose centroid is within 10 units of a
\* map edge; none of them is in a Lake and nothing else is in the Ocean.
OceanExpected ==
  LET seeds == {i \in 1..Len(cells) : ~cells[i].isLand
                                      /\ NearBorder(cells[i], LabelWidth, LabelHeight)}
  IN {cells[i].id : i \in Reach(cells, seeds, FALSE, 1..Len(cells))}

C2_OceanExact ==
  pc = "labelled" =>
    /\ features[1].type = "ocean"
    /\ Range(features[1].cells) = OceanExpected
    /\ \A k \in 2..Len(features) :
         /\ features[k].type # "ocean"
         /\ Range(features[k].cells) \cap OceanExpected = {}

C2_Witness ==
  /\ pc = "labelled"
  /\ Cardinality(OceanExpected) >= 2
  /\ \E i \in 1..Len(cells) : /\ cells[i].id \in OceanExpected
                              /\ ~NearBorder(cells[i], LabelWidth, LabelHeight)
  /\ \E k \in 2..Len(features) : features[k].type = "lake"

\* C3: every Lake is a maximal connected set of water cells and every Island
\* a maximal connected set of land cells: members have the feature's type,
\* any two members are linked by a chain of neighbouring members, and no
\* same-type neighbour of a member belongs to a different feature.
MaximalComponent(k) ==
  LET f   == features[k]
      mem == IndicesOf(cells, Range(f.cells))
  IN /\ \A i \in mem : cells[i].isLand = f.land
     /\ \A i \in mem : Reach(cells, {i}, f.land, mem) = mem
     /\ \A i \in mem : \A j \in 1..Len(cells) :
          (cells[j].id \in Range(cells[i].neighbors) /\ cells[j].isLand = f.land)
             => j \in mem

C3_MaximalComponents ==
  pc = "labelled" =>
    \A k \in 1..Len(features) :
       features[k].type \in {"lake", "island"} =>
          /\ features[k].land = (features[k].type = "island")
          /\ MaximalComponent(k)

C3_Witness ==
  /\ pc = "labelled"
  /\ \E k \in 1..Len(features) : features[k].type = "lake" /\ Len(features[k].cells) >= 2
  /\ \E k \in 1..Len(features) : features[k].type = "island" /\ Len(features[k].cells) >= 2

\* C4 as stated: every returned feature, the Ocean included, has a non-empty
\* cells list for every input.
C4_AllNonEmpty ==
  pc = "labelled" => \A k \in 1..Len(features) : features[k].cells # <<>>

\* C4 (amended): every Lake and every Island has a non-empty cells list, and
\* the Ocean's list is non-empty exactly when some water cell has its centroid
\* within 10 units of a map edge.
C4_NonEmptyExceptUnseededOcean ==
  pc = "labelled" =>
    /\ \A k \in 2..Len(features) : features[k].cells # <<>> /\ features[k].size >= 1
    /\ (features[1].cells # <<>>) <=>
         (\E i \in 1..Len(cells) : ~cells[i].isLand
                                   /\ NearBorder(cells[i], LabelWidth, LabelHeight))

C4_Witness ==
  /\ pc = "labelled"
  /\ features[1].cells = <<>>
  /\ \E k \in 2..Len(features) : features[k].type = "lake"
  /\ \E k \in 2..Len(features) : features[k].type = "island"


\* ============================================ SpecLoop: assembleBoundaryLoop
\* Segment lists are built, without repetition and in every order, from a
\* fixed family of oriented segments: two disjoint triangles A-B-C and D-E-F,
\* a bridge B-D between them, a second copy of A-B that runs the other way and
\* differs from it below the rounding precision, and a segment at C whose two
\* ends round to the same point.
PtA == <<0, 0>>
PtB == <<Units(1), 0>>
PtC == <<0, Units(1)>>
PtD == <<Units(2), Units(2)>>
PtE == <<Units(3), Units(2)>>
PtF == <<Units(2), Units(3)>>

Seg(a, b) ==
  [start |-> a, end |-> b, landCellId |-> 0, waterCellId |-> 0, featureId |-> Undefined]

LoopSegments ==
  << Seg(PtA, PtB), Seg(PtB, PtC), Seg(PtC, PtA),
     Seg(PtD, PtE), Seg(PtE, PtF), Seg(PtF, PtD),
     Seg(PtB, PtD),
     Seg(<<Units(1) + 4, 0>>, <<4, 0>>),
     Seg(PtC, <<0, Units(1) + 4>>) >>

\* the caller's list is empty at first
LoopInit ==
  /\ NoPass
  /\ NoProbe
  /\ pc = "collect"
  /\ cells = <<>>
  /\ features = <<>>
  /\ coastalSegments = <<>>
  /\ loopIn = <<>>
  /\ loopOut = <<>>

\* segmentsByFeature.get(...).push(segment): one more segment of the family,
\* not yet in the list, is appended
CollectSegment ==
  /\ pc = "collect"
  /\ Len(loopIn) < MaxSegs
  /\ \E k \in 1..Len(LoopSegments) :
       /\ LoopSegments[k] \notin Range(loopIn)
       /\ loopIn' = Append(loopIn, LoopSegments[k])
  /\ UNCHANGED <<pc, cells, features, coastalSegments, loopOut, passVars, probeVars>>

\* feature.boundary = assembleBoundaryLoop(featureSegments), with what the
\* call writes to the console
AssembleCall ==
  /\ pc = "collect"
  /\ loopOut' = AssembleBoundaryLoop(loopIn)
  /\ consoleLog' = consoleLog \o AssembleBoundaryLoopLog(loopIn)
  /\ pc' = "assembled"
  /\ UNCHANGED <<cells, features, coastalSegments, loopIn, passVars,
                 countedEdges, repeatSegments, cellsBefore, blobs>>

LoopNext == CollectSegment \/ AssembleCall

SpecLoop == LoopInit /\ [][LoopNext]_vars

\* ---- the deduplicated boundary graph, as the claims describe it
Round2(p) == <<ToFixed(p[1], 2), ToFixed(p[2], 2)>>

\* each deduplicated segment as the set of its one or two rounded end points
GraphEdges(segs) == {{Round2(segs[k].start), Round2(segs[k].end)} : k \in 1..Len(segs)}

GraphVertices(segs) == UNION GraphEdges(segs)

\* a segment whose ends coincide counts twice at its vertex
Degree(segs, v) ==
  Cardinality({e \in GraphEdges(segs) : v \in e /\ Cardinality(e) = 2})
    + 2 * Cardinality({e \in GraphEdges(segs) : e = {v}})

NoDegreeOne(segs) == \A v \in GraphVertices(segs) : Degree(segs, v) # 1

AllDegreeTwo(segs) == \A v \in GraphVertices(segs) : Degree(segs, v) = 2

First(path) == path[1]
Last(path) == path[Len(path)]

\* C7 as stated: with no degree-1 vertex the returned sequence is closed, its
\* first and last point coincide.
C7_FirstEqualsLast ==
  (pc = "assembled" /\ loopIn # <<>> /\ NoDegreeOne(loopIn)) =>
     (loopOut # <<>> /\ First(loopOut) = Last(loopOut))

\* C7 (amended): when every vertex of the deduplicated graph has degree 2
\* (disjoint simple cycles), the returned sequence is closed implicitly: it
\* does not repeat its start, and its last point is joined to its first point
\* by one of the deduplicated segments.
C7_ImplicitlyClosed ==
  (pc = "assembled" /\ loopIn # <<>> /\ AllDegreeTwo(loopIn)) =>
     /\ loopOut # <<>>
     /\ {Last(loopOut), First(loopOut)} \in GraphEdges(loopIn)
     /\ Len(loopOut) > 1 => First(loopOut) # Last(loopOut)

C7_Witness ==
  /\ pc = "assembled"
  /\ AllDegreeTwo(loopIn)
  /\ Len(loopIn) = 4
  /\ Len(loopOut) = 3
  /\ First(loopOut) # Last(loopOut)

\* C8: with no degree-1 vertex - one cycle or several disjoint cycles - the
\* returned sequence has as many points as there are deduplicated segments and
\* every deduplicated segment joins two consecutive points of the walk (the
\* step from the last point back to the first counted as consecutive).
Consecutive(path) ==
  {{path[i], path[(i % Len(path)) + 1]} : i \in 1..Len(path)}

C8_NoDropNoRevisit ==
  (pc = "assembled" /\ loopIn # <<>> /\ AllDegreeTwo(loopIn)) =>
     /\ Len(loopOut) = Cardinality(GraphEdges(loopIn))
     /\ GraphEdges(loopIn) \subseteq Consecutive(loopOut)


\* C16: the returned sequence never contains the same rounded point twice,
\* every two consecutive points of it are the rounded end points of one input
\* segment, and the empty segment list gives the empty sequence.
C16_SimplePathAlongSegments ==
  pc = "assembled" =>
    /\ loopIn = <<>> => loopOut = <<>>
    /\ \A i \in 1..Len(loopOut) : \A j \in 1..Len(loopOut) :
          loopOut[i] = loopOut[j] => i = j
    /\ \A i \in 1..(Len(loopOut) - 1) :
          {loopOut[i], loopOut[i + 1]} \in GraphEdges(loopIn)

C16_Witness ==
  /\ pc = "assembled"
  /\ Len(loopOut) >= 5
  /\ Len(loopIn) > Len(loopOut)
  /\ ~AllDegreeTwo(loopIn)


\* the number of degree-1 vertices is neither 0 nor 2, or there is no
\* endpoint and some vertex has a degree other than 2
Malformed(segs) ==
  LET ends == {v \in GraphVertices(segs) : Degree(segs, v) = 1}
  IN \/ Cardinality(ends) \notin {0, 2}
     \/ ends = {} /\ ~AllDegreeTwo(segs)

\* C17: on a malformed boundary graph assembleBoundaryLoop still returns a
\* (partial) walk, and it signals the condition on the console.
C17_MalformedSignalled ==
  (pc = "assembled" /\ Malformed(loopIn)) =>
     /\ loopOut # <<>>
     /\ consoleLog # <<>>


\* C25: assembleBoundaryLoop terminates on every segment list - graphs with
\* branch vertices, several components or zero-length segments included - and
\* returns at most (number of deduplicated segments + 3) points.  Every
\* iteration of the walk pushes exactly one point, so the number of points
\* returned is the number of iterations made.
C25_WalkWithinBound ==
  pc = "assembled" => Len(loopOut) <= Cardinality(GraphEdges(loopIn)) + 3

C25_Witness ==
  /\ pc = "assembled"
  /\ \E e \in GraphEdges(loopIn) : Cardinality(e) = 1
  /\ \E v \in GraphVertices(loopIn) : Degree(loopIn, v) >= 3
  /\ Len(loopOut) >= 3
  /\ Range(loopOut) # GraphVertices(loopIn)

\* the vertices that a chain of segments joins to a vertex of S
RECURSIVE Joined(_, _)
Joined(segs, S) ==
  LET T == S \cup UNION {e \in GraphEdges(segs) : e \cap S # {}}
  IN IF T = S THEN S ELSE Joined(segs, T)

DegreeOne(segs) ==
  LET edges == GraphEdges(segs)
  IN {v \in UNION edges :
        /\ Cardinality({e \in edges : v \in e}) = 1
        /\ {v} \notin edges}

\* connected, exactly two vertices of degree 1, every other vertex of degree 2
SimplePath(segs) ==
  LET edges == GraphEdges(segs)
      verts == UNION edges
  IN /\ Cardinality(DegreeOne(segs)) = 2
     /\ \A e \in edges : Cardinality(e) = 2
     /\ \A v \in verts : Cardinality({e \in edges : v \in e}) <= 2
     /\ Joined(segs, {CHOOSE v \in verts : TRUE}) = verts

\* C26: when the deduplicated segments form a single simple path, the result
\* holds every vertex exactly once in path order, from one endpoint to the
\* other: (number of deduplicated segments + 1) points.
C26_SimplePathWalkedEndToEnd ==
  (pc = "assembled" /\ loopIn # <<>> /\ SimplePath(loopIn)) =>
     /\ Len(loopOut) = Cardinality(GraphEdges(loopIn)) + 1
     /\ Range(loopOut) = GraphVertices(loopIn)
     /\ \A i, j \in 1..Len(loopOut) : loopOut[i] = loopOut[j] => i = j
     /\ \A i \in 1..(Len(loopOut) - 1) : {loopOut[i], loopOut[i + 1]} \in GraphEdges(loopIn)
     /\ {First(loopOut), Last(loopOut)} = DegreeOne(loopIn)

C26_Witness ==
  /\ pc = "assembled"
  /\ SimplePath(loopIn)
  /\ Len(loopIn) = 5
  /\ Len(loopOut) = 5
  /\ First(loopOut) # PtA

\* the minimum of a set of points under (smaller y, then smaller x)
MinVertex(S) ==
  CHOOSE a \in S : \A b \in S : a[2] < b[2] \/ (a[2] = b[2] /\ a[1] <= b[1])

EndsInOrder(segs) ==
  ArrayOf([n \in 1..(2 * Len(segs)) |->
     IF n % 2 = 1 THEN Round2(segs[(n + 1) \div 2].start) ELSE Round2(segs[n \div 2].end)])

FirstNamedEndpoint(segs) ==
  LET ends  == DegreeOne(segs)
      named == SelectSeq(EndsInOrder(segs), LAMBDA e : e \in ends)
  IN named[1]

C23_EdgeIslandHasBorderFlag ==
  pc = "labelled" =>
    \A k \in 1..Len(features) :
      ( /\ features[k].type = "island"
        /\ \E i \in 1..Len(cells) :
             /\ cells[i].id \in Range(features[k].cells)
             /\ \E v \in 1..Len(cells[i].polygon) : cells[i].polygon[v][1] = 0 )
      => features[k].border

\* featureId values left in the cells by earlier work: what the call itself has
\* just written, one and the same id everywhere, or a different id per cell
StaleCells ==
  {cells}
  \cup {[i \in 1..Len(cells) |-> [cells[i] EXCEPT !.featureId = v]] : v \in {0, 1, NumCells}}
  \cup {[i \in 1..Len(cells) |-> [cells[i] EXCEPT !.featureId = Len(cells) - i]]}

\* position in the array of the first cell of a feature
FirstCell(f) ==
  CHOOSE i \in 1..Len(cells) :
    /\ cells[i].id \in Range(f.cells)
    /\ \A j \in 1..(i - 1) : cells[j].id \notin Range(f.cells)

\* C24: labelFeatures returns the same features with the same ids whatever
\* featureId values the cells held before the call; the Ocean has id 0, the
\* Lakes come next and the Islands last, each kind in the order in which its
\* first cell occurs in the array, and each feature's id is its index in the
\* returned list.
C24_ReproducibleIds ==
  pc = "labelled" =>
    /\ \A stale \in StaleCells :
         LabelFeatures(stale, LabelWidth, LabelHeight) = [cells |-> cells, features |-> features]
    /\ features[1].type = "ocean"
    /\ \A k \in 1..Len(features) : features[k].id = k - 1
    /\ \A k \in 2..Len(features) : features[k].type \in {"lake", "island"}
    /\ \A k, l \in 2..Len(features) :
         k < l => /\ features[k].type = "island" => features[l].type = "island"
                  /\ features[k].type = features[l].type =>
                        FirstCell(features[k]) < FirstCell(features[l])

C24_Witness ==
  /\ pc = "labelled"
  /\ Cardinality({k \in 1..Len(features) : features[k].type = "lake"}) = 2
  /\ Cardinality({k \in 1..Len(features) : features[k].type = "island"}) = 2
  /\ \E k \in 1..Len(features) : features[k].type = "island" /\ features[k].size = 1

\* ===================================================== grid meshes (inputs)
\* The mesh provider is outside the model.  Its meshes are represented by a
\* Rows x Cols grid of square cells that tile the map rectangle: cell ids are
\* array indices, the centroid is the cell's site, neighbours share an edge.
\* Inner grid lines may be off their 2-decimal value by eps thousandths (the
\* provider computes vertices in floating point); the outer lines are exactly
\* 0 and width/height.  With closed = TRUE the ring repeats its first vertex
\* at the end, as a closed polygon does.
CellSize == Units(20)
MapWidth == Cols * CellSize
MapHeight == Rows * CellSize

VertexNoise == {0, 4}

GridLine(k, n, eps) ==
  IF k = 0 THEN 0 ELSE IF k = n THEN n * CellSize ELSE k * CellSize + eps

GridPolygon(r, c, eps, closed) ==
  LET x0 == GridLine(c, Cols, eps)
      x1 == GridLine(c + 1, Cols, eps)
      y0 == GridLine(r, Rows, eps)
      y1 == GridLine(r + 1, Rows, eps)
      ring == <<<<x0, y0>>, <<x1, y0>>, <<x1, y1>>, <<x0, y1>>>>
  IN IF closed THEN Append(ring, <<x0, y0>>) ELSE ring

GridNeighbors(r, c) ==
  SortedSeq({rr * Cols + cc : <<rr, cc>> \in
               {q \in (0..(Rows - 1)) \X (0..(Cols - 1)) :
                  \/ q[1] = r /\ (q[2] = c - 1 \/ q[2] = c + 1)
                  \/ q[2] = c /\ (q[1] = r - 1 \/ q[1] = r + 1)}})

GridMesh(eps, closed) ==
  [i \in 1..(Rows * Cols) |->
     LET r == (i - 1) \div Cols
         c == (i - 1) % Cols
     IN [id |-> i - 1,
         centroid |-> <<c * CellSize + CellSize \div 2, r * CellSize + CellSize \div 2>>,
         polygon |-> GridPolygon(r, c, eps, closed),
         neighbors |-> GridNeighbors(r, c),
         height |-> 0, isLand |-> FALSE, featureId |-> Undefined]]

\* ================== SpecCoast: findCoastalEdges, labelFeatures, build paths
CoastInit ==
  /\ NoPass
  /\ NoProbe
  /\ pc = "extract"
  /\ features = <<>>
  /\ coastalSegments = <<>>
  /\ loopIn = <<>>
  /\ loopOut = <<>>
  /\ \E eps \in VertexNoise : \E closed \in BOOLEAN :
       \E land \in [1..(Rows * Cols) -> BOOLEAN] :
          /\ Cardinality({i \in 1..(Rows * Cols) : land[i]}) <= MaxLand
          /\ cells = [i \in 1..(Rows * Cols) |->
                        [GridMesh(eps, closed)[i] EXCEPT
                           !.isLand = land[i],
                           !.height = IF land[i] THEN Units(1) ELSE 0]]

\* mutant: the call stamps a feature id on the land cells it emits edges for
CellsStampedByExtract(cs) ==
  [i \in 1..Len(cs) |-> IF cs[i].isLand THEN [cs[i] EXCEPT !.featureId = 0] ELSE cs[i]]

\* the cells after a findCoastalEdges call: the function reads cells and
\* polygons and assigns no field of any cell
CellsAfterExtract(cs) == cs

CoastExtract ==
  /\ pc = "extract"
  /\ coastalSegments' = FindCoastalEdges(cells, MapWidth, MapHeight)
  /\ cells' = CellsAfterExtract(cells)
  /\ pc' = "classify"
  /\ UNCHANGED <<features, loopIn, loopOut, passVars, probeVars>>

\* a second call on the cells the first call left behind
CoastExtractAgain ==
  /\ pc = "classify"
  /\ repeatSegments' = FindCoastalEdges(cells, MapWidth, MapHeight)
  /\ cells' = CellsAfterExtract(cells)
  /\ pc' = "repeated"
  /\ UNCHANGED <<features, coastalSegments, loopIn, loopOut, passVars,
                 countedEdges, consoleLog, cellsBefore, blobs>>

CoastLabel ==
  /\ pc = "classify"
  /\ LET r == LabelFeatures(cells, MapWidth, MapHeight) IN
       /\ cells' = r.cells
       /\ features' = r.features
  /\ pc' = "paths"
  /\ UNCHANGED <<coastalSegments, loopIn, loopOut, passVars, probeVars>>

CoastBuild ==
  /\ pc = "paths"
  /\ features' = BuildCoastlinePaths(coastalSegments, features, cells)
  /\ pc' = "built"
  /\ UNCHANGED <<cells, coastalSegments, loopIn, loopOut, passVars, probeVars>>

CoastNext == CoastExtract \/ CoastExtractAgain \/ CoastLabel \/ CoastBuild

SpecCoast == CoastInit /\ [][CoastNext]_vars

\* ---- notions the claims are stated in
OnMapRectangle(p) == p[1] \in {0, MapWidth} \/ p[2] \in {0, MapHeight}

\* the edges of a polygon between distinct consecutive vertices
PolygonEdges(polygon) ==
  {<<polygon[i], polygon[NextIndex(polygon, i)]>> : i \in 1..Len(polygon)}
    \ {<<q, q>> : q \in Range(polygon)}

SameEdge(e, f) == {e[1], e[2]} = {f[1], f[2]}

\* an edge lying on one side of the map rectangle
AlongMapRectangle(e) ==
  \/ e[1][1] = 0 /\ e[2][1] = 0
  \/ e[1][1] = MapWidth /\ e[2][1] = MapWidth
  \/ e[1][2] = 0 /\ e[2][2] = 0
  \/ e[1][2] = MapHeight /\ e[2][2] = MapHeight

ClippedByMapEdge(f) ==
  \E i \in IndicesOf(cells, Range(f.cells)) :
     \E e \in PolygonEdges(cells[i].polygon) : AlongMapRectangle(e)

\* C9: for a land feature clipped by the map edge, the first and the last
\* point of the boundary assembled by buildCoastlinePaths from the
\* findCoastalEdges segments both lie on the map rectangle.
C9_ClippedEndsOnRectangle ==
  pc = "built" =>
    \A k \in 1..Len(features) :
       (features[k].type = "island" /\ ClippedByMapEdge(features[k])) =>
          /\ features[k].hasBoundary
          /\ features[k].boundary # <<>>
          /\ OnMapRectangle(First(features[k].boundary))
          /\ OnMapRectangle(Last(features[k].boundary))

\* C10: findCoastalEdges returns every boundary edge with its actual end
\* points: each polygon edge of a land cell that no other land cell has
\* (it faces water or the map rectangle) is among the returned segments.
BoundaryEdgesOf(i) ==
  {e \in PolygonEdges(cells[i].polygon) :
     ~\E j \in 1..Len(cells) :
        j # i /\ cells[j].isLand /\ \E f \in PolygonEdges(cells[j].polygon) : SameEdge(e, f)}

C10_AllBoundaryEdgesReturned ==
  pc \in {"classify", "paths", "built"} =>
    \A i \in 1..Len(cells) :
       cells[i].isLand =>
          \A e \in BoundaryEdgesOf(i) :
             \E k \in 1..Len(coastalSegments) :
                SameEdge(e, <<coastalSegments[k].start, coastalSegments[k].end>>)

\* ---- C11
\* every consecutive pair of a polygon ring, the closing pair of a closed ring
\* (a repeated vertex) included
RingEdges(polygon) ==
  {<<polygon[i], polygon[NextIndex(polygon, i)]>> : i \in 1..Len(polygon)}

\* another land cell has the same edge
SharedByLand(i, e) ==
  \E j \in 1..Len(cells) :
     j # i /\ cells[j].isLand /\ \E f \in RingEdges(cells[j].polygon) : SameEdge(e, f)

\* C11: every segment returned by findCoastalEdges is a boundary edge: it is a
\* polygon edge of its land cell, and no second land cell has that edge (it
\* lies between land and water or along the map rectangle).
C11_OnlyBoundaryEdges ==
  pc \in {"classify", "paths", "built"} =>
    \A k \in 1..Len(coastalSegments) :
       LET seg == coastalSegments[k]
           e   == <<seg.start, seg.end>>
           i   == FindCell(cells, seg.landCellId)
       IN /\ i # 0
          /\ cells[i].isLand
          /\ \E f \in RingEdges(cells[i].polygon) : SameEdge(e, f)
          /\ ~SharedByLand(i, e)


HasCoastline(f) ==
  \E i \in IndicesOf(cells, Range(f.cells)) :
     \/ \E j \in IndicesOf(cells, Range(cells[i].neighbors)) : cells[j].isLand # cells[i].isLand
     \/ cells[i].isLand /\ \E e \in PolygonEdges(cells[i].polygon) : AlongMapRectangle(e)

\* C15: after buildCoastlinePaths the boundary is set exactly on the lakes
\* and islands that have a coastline, as a non-empty outline, and the Ocean
\* has none.
C15_BoundaryExactlyOnCoastalFeatures ==
  pc = "built" =>
    \A k \in 1..Len(features) :
       /\ features[k].hasBoundary <=>
             (features[k].type # "ocean" /\ HasCoastline(features[k]))
       /\ features[k].hasBoundary => features[k].boundary # <<>>


\* ================================================ Spec: one generation pass
\* generateMap on a grid mesh.  generateTerrain draws from Math.random; here
\* it lifts at most MaxRaised cells, any of them, to the main peak height 1.0
\* and leaves the others at height 0.
PeakHeight == Units(1)

WaterMargins == {Units(10), Units(30)}

\* findCoastalEdges(terrainResult.cells): width and height are not passed
NotPassed == Undefined

Init ==
  /\ pc = "mesh"
  /\ cells = <<>>
  /\ features = <<>>
  /\ coastalSegments = <<>>
  /\ loopIn = <<>>
  /\ loopOut = <<>>
  /\ \E mode \in BOOLEAN : \E wm \in WaterMargins :
       params = [seaLevel |-> DefaultSeaLevel, continentMode |-> mode, waterMargin |-> wm]
  /\ calls = <<>>
  /\ carvedCount = 0
  /\ pubFeatures = <<>>
  /\ pubCells = <<>>
  /\ NoProbe

Advance(name) ==
  /\ pc' = StepAfter(pc)
  /\ calls' = Append(calls, name)

GenerateMesh ==
  /\ pc = "mesh"
  /\ \E eps \in VertexNoise : \E closed \in BOOLEAN : cells' = GridMesh(eps, closed)
  /\ Advance("generateVoronoiMesh")
  /\ UNCHANGED <<features, coastalSegments, loopIn, loopOut, probeVars, params, carvedCount,
                 pubFeatures, pubCells>>

GenerateTerrain ==
  /\ pc = "terrain"
  /\ \E raised \in SUBSET (1..Len(cells)) :
       /\ Cardinality(raised) <= MaxRaised
       /\ cells' = [i \in 1..Len(cells) |->
                     [cells[i] EXCEPT !.height = IF i \in raised THEN PeakHeight ELSE 0]]
  /\ Advance("generateTerrain")
  /\ UNCHANGED <<features, coastalSegments, loopIn, loopOut, probeVars, params, carvedCount,
                 pubFeatures, pubCells>>

ApplySeaLevelStep ==
  /\ pc = "seaLevel"
  /\ cells' = ApplySeaLevel(cells, params.seaLevel, params.continentMode)
  /\ Advance("applySeaLevel")
  /\ UNCHANGED <<features, coastalSegments, loopIn, loopOut, probeVars, params, carvedCount,
                 pubFeatures, pubCells>>

FindCoastalEdgesStep ==
  /\ pc = "coastalEdges"
  /\ coastalSegments' = FindCoastalEdges(cells, NotPassed, NotPassed)
  /\ Advance("findCoastalEdges")
  /\ UNCHANGED <<cells, features, loopIn, loopOut, probeVars, params, carvedCount,
                 pubFeatures, pubCells>>

LabelFeaturesStep ==
  /\ pc = "labelFeatures"
  /\ LET r == LabelFeatures(cells, MapWidth, MapHeight) IN
       /\ cells' = r.cells
       /\ features' = r.features
  /\ Advance("labelFeatures")
  /\ UNCHANGED <<coastalSegments, loopIn, loopOut, probeVars, params, carvedCount,
                 pubFeatures, pubCells>>

\* buildCoastlinePaths(coastalSegments, cleanedFeatures, terrainResult.cells)
\* on what the second labelFeatures call returned
BuildRelabelled(segments, r) ==
  [cells |-> r.cells, features |-> BuildCoastlinePaths(segments, r.features, r.cells)]

\* tiny-island removal, relabelling when an island was removed, then
\* buildCoastlinePaths: the cells and the features handed to setFeatures
PostProcess(segments, fs, cs, w, h) ==
  IF TinyIslands(fs, cs) # {}
  THEN BuildRelabelled(segments, LabelFeatures(RemoveTinyIslands(fs, cs), w, h))
  ELSE [cells |-> cs, features |-> BuildCoastlinePaths(segments, fs, cs)]

PostProcessStep ==
  /\ pc = "postProcess"
  /\ LET r == PostProcess(coastalSegments, features, cells, MapWidth, MapHeight)
     IN /\ cells' = r.cells
        /\ features' = r.features
        /\ pubFeatures' = r.features
  /\ pc' = StepAfter(pc)
  /\ calls' = calls \o <<"buildCoastlinePaths", "setFeatures">>
  /\ UNCHANGED <<coastalSegments, loopIn, loopOut, probeVars, params, carvedCount, pubCells>>

BorderCarvingStep ==
  /\ pc = "borderCarving"
  /\ cells' = CarveBorder(cells, params.waterMargin, MapWidth, MapHeight)
  /\ carvedCount' = Cardinality({i \in 1..Len(cells) : cells'[i] # cells[i]})
  /\ Advance("borderCarving")
  /\ UNCHANGED <<features, coastalSegments, loopIn, loopOut, probeVars, params, pubFeatures, pubCells>>

PublishStep ==
  /\ pc = "publish"
  /\ pubCells' = cells
  /\ Advance("setCells")
  /\ UNCHANGED <<cells, features, coastalSegments, loopIn, loopOut, probeVars, params, carvedCount,
                 pubFeatures>>

Next ==
  \/ GenerateMesh
  \/ GenerateTerrain
  \/ ApplySeaLevelStep
  \/ FindCoastalEdgesStep
  \/ LabelFeaturesStep
  \/ PostProcessStep
  \/ BorderCarvingStep
  \/ PublishStep

Spec == Init /\ [][Next]_vars

Called(name) == name \in Range(calls)

\* C5 as stated: after border carving no land cell has its centroid at
\* distance less than or equal to waterMargin from a map edge.
C5_NoLandWithinMarginInclusive ==
  Called("borderCarving") =>
    \A i \in 1..Len(cells) :
       cells[i].isLand =>
          /\ cells[i].centroid[1] > params.waterMargin
          /\ cells[i].centroid[1] < MapWidth - params.waterMargin
          /\ cells[i].centroid[2] > params.waterMargin
          /\ cells[i].centroid[2] < MapHeight - params.waterMargin

\* C5 (amended): after border carving no land cell has its centroid at
\* distance strictly less than waterMargin from a map edge; a cell whose
\* centroid is exactly waterMargin away from an edge is not carved.
C5_NoLandWithinMarginStrict ==
  Called("borderCarving") =>
    \A i \in 1..Len(cells) :
       cells[i].isLand =>
          /\ cells[i].centroid[1] >= params.waterMargin
          /\ cells[i].centroid[1] <= MapWidth - params.waterMargin
          /\ cells[i].centroid[2] >= params.waterMargin
          /\ cells[i].centroid[2] <= MapHeight - params.waterMargin

C5_Witness ==
  /\ pc = "done"
  /\ carvedCount >= 2
  /\ \E i \in 1..Len(cells) : cells[i].isLand
  /\ \E i \in 1..Len(cells) :
       ~cells[i].isLand /\ cells[i].centroid[2] > MapHeight - params.waterMargin
                        /\ cells[i].featureId # 0

\* C6: border carving runs only after findCoastalEdges, labelFeatures and
\* buildCoastlinePaths have completed, and neither the segments nor the
\* features (with their boundaries) change once it has run.
C6_CarvingAfterCoastlines ==
  [][ /\ (Called("borderCarving")' /\ ~Called("borderCarving")) =>
            /\ Called("findCoastalEdges")
            /\ Called("labelFeatures")
            /\ Called("buildCoastlinePaths")
      /\ (coastalSegments' # coastalSegments \/ features' # features) =>
            ~Called("borderCarving")' ]_vars

C6_Witness ==
  /\ pc = "done"
  /\ carvedCount >= 1
  /\ coastalSegments # <<>>
  /\ \E k \in 1..Len(features) : features[k].hasBoundary /\ Len(features[k].boundary) >= 4


\* C14: in a generation pass every map-border segment (waterCellId = -1)
\* carries the feature id that labelFeatures gives to its land cell.
C14_BorderSegmentsTagged ==
  Called("labelFeatures") =>
    \A k \in 1..Len(coastalSegments) :
       coastalSegments[k].waterCellId = MapBorderId =>
          LET i == FindCell(cells, coastalSegments[k].landCellId)
          IN i # 0 /\ coastalSegments[k].featureId = cells[i].featureId


\* C30: at the end of a generation pass the published features agree with the
\* published cells: every cell listed in an Island feature is land and every
\* cell listed in the Ocean or in a Lake is water, border carving included.
C30_PublishedFeaturesMatchCells ==
  pc = "done" =>
    \A k \in 1..Len(pubFeatures) : \A n \in 1..Len(pubFeatures[k].cells) :
      LET i == FindCell(pubCells, pubFeatures[k].cells[n])
      IN i # 0 /\ (pubCells[i].isLand <=> pubFeatures[k].type = "island")

\* ============================= SpecKey: the edge map of findCoastalEdges
\* Two land cells side by side.  Each cell's polygon carries its own copy of
\* the two vertices of the shared edge; the x of each copy is off by a few
\* thousandths, less than the 2-decimal rounding can see.
FloatNoise == {0 - 4, 0, 4}

PairMesh(a, b, c, d) ==
  << [id |-> 0, centroid |-> <<Units(10), Units(30)>>,
      polygon |-> << <<0, Units(20)>>, <<Units(20) + a, Units(20)>>,
                     <<Units(20) + b, Units(40)>>, <<0, Units(40)>> >>,
      neighbors |-> <<1>>, height |-> Units(1), isLand |-> TRUE,
      featureId |-> Undefined],
     [id |-> 1, centroid |-> <<Units(30), Units(30)>>,
      polygon |-> << <<Units(20) + c, Units(20)>>, <<Units(40), Units(20)>>,
                     <<Units(40), Units(40)>>, <<Units(20) + d, Units(40)>> >>,
      neighbors |-> <<0>>, height |-> Units(1), isLand |-> TRUE,
      featureId |-> Undefined] >>

KeyInit ==
  /\ NoPass
  /\ NoProbe
  /\ pc = "key"
  /\ features = <<>>
  /\ coastalSegments = <<>>
  /\ loopIn = <<>>
  /\ loopOut = <<>>
  /\ \E a \in FloatNoise : \E b \in FloatNoise :
       \E c \in FloatNoise : \E d \in FloatNoise : cells = PairMesh(a, b, c, d)

\* the first loop of findCoastalEdges
CountEdgesCall ==
  /\ pc = "key"
  /\ countedEdges' = CountEdges(LandEdges(cells, 1))
  /\ pc' = "counted"
  /\ UNCHANGED <<cells, features, coastalSegments, loopIn, loopOut, passVars,
                 repeatSegments, consoleLog, cellsBefore, blobs>>

KeyNext == CountEdgesCall

SpecKey == KeyInit /\ [][KeyNext]_vars

\* the corresponding end points of two edges round to the same 2-decimal
\* coordinates, in either traversal direction
SameGeometricEdge(e, f) ==
  \/ Fixed2(e[1]) = Fixed2(f[1]) /\ Fixed2(e[2]) = Fixed2(f[2])
  \/ Fixed2(e[1]) = Fixed2(f[2]) /\ Fixed2(e[2]) = Fixed2(f[1])

\* C12: two polygon edges of adjacent cells that describe the same geometric
\* edge get the same edge-map key, and the key of an edge shared by two land
\* cells has count 2.
C12_SharedEdgeSameKey ==
  pc = "counted" =>
    \A e \in RingEdges(cells[1].polygon) : \A f \in RingEdges(cells[2].polygon) :
       SameGeometricEdge(e, f) =>
          /\ EdgeKey(e[1], e[2]) = EdgeKey(f[1], f[2])
          /\ countedEdges.count[EdgeKey(e[1], e[2])] = 2


\* ================================================= SpecSea: applySeaLevel
\* applySeaLevel alone, on any array of at most MaxSeaCells cells whose heights
\* are drawn from SeaHeights, for each target of SeaLevels and either mode.
SeaHeights == {0, 100, 150, 200, Units(1)}

SeaLevels == {0, DefaultSeaLevel, 500}

SeaCell(i, h) ==
  [id |-> i - 1, centroid |-> <<Units(10) + (i - 1) * Units(20), Units(10)>>,
   polygon |-> <<>>, neighbors |-> <<>>,
   height |-> h, isLand |-> FALSE, featureId |-> Undefined]

SeaInit ==
  /\ NoProbe
  /\ pc = "sea"
  /\ features = <<>>
  /\ coastalSegments = <<>>
  /\ loopIn = <<>>
  /\ loopOut = <<>>
  /\ calls = <<>>
  /\ carvedCount = 0
  /\ pubFeatures = <<>>
  /\ pubCells = <<>>
  /\ \E n \in 0..MaxSeaCells : \E hs \in [1..n -> SeaHeights] :
       cells = [i \in 1..n |-> SeaCell(i, hs[i])]
  /\ \E level \in SeaLevels : \E mode \in BOOLEAN :
       params = [seaLevel |-> level, continentMode |-> mode, waterMargin |-> 0]

\* applySeaLevel(cells, seaLevel, continentMode)
ApplySeaLevelCall ==
  /\ pc = "sea"
  /\ cells' = ApplySeaLevel(cells, params.seaLevel, params.continentMode)
  /\ cellsBefore' = cells
  /\ pc' = "classified"
  /\ UNCHANGED <<features, coastalSegments, loopIn, loopOut, passVars,
                 countedEdges, repeatSegments, consoleLog, blobs>>

SeaNext == ApplySeaLevelCall

SpecSea == SeaInit /\ [][SeaNext]_vars

\* ---- the claims' own notions, computed from the array as handed in
PositiveCells(cs) == {i \in 1..Len(cs) : cs[i].height > 0}

\* the element at index floor(0.25 * n) of the ascending positive heights: the
\* height with at most floor(n / 4) positive heights below it and more than
\* floor(n / 4) positive heights not above it
Percentile25(cs) ==
  LET pos == PositiveCells(cs)
      q   == Cardinality(pos) \div 4
  IN CHOOSE v \in {cs[i].height : i \in pos} :
       /\ Cardinality({i \in pos : cs[i].height < v}) <= q
       /\ Cardinality({i \in pos : cs[i].height <= v}) > q

\* C18: in continental mode with n >= 1 positive heights the threshold is
\* min(seaLevel, 0.8 * p25), and so at least n - floor(0.25 * n) cells, every
\* cell at least as high as p25, are land, whatever the target is.
C18_ContinentalLandFloor ==
  (pc = "classified" /\ params.continentMode /\ PositiveCells(cellsBefore) # {}) =>
     LET n   == Cardinality(PositiveCells(cellsBefore))
         p25 == Percentile25(cellsBefore)
         threshold10 == IF params.seaLevel * 10 <= p25 * 8
                        THEN params.seaLevel * 10 ELSE p25 * 8
     IN /\ \A i \in 1..Len(cells) :
              cells[i].isLand <=> cellsBefore[i].height * 10 > threshold10
        /\ \A i \in 1..Len(cells) : cellsBefore[i].height >= p25 => cells[i].isLand
        /\ Cardinality({i \in 1..Len(cells) : cells[i].isLand}) >= n - (n \div 4)

C18_Witness ==
  /\ pc = "classified"
  /\ params.continentMode
  /\ params.seaLevel = 500
  /\ Cardinality(PositiveCells(cellsBefore)) = 4
  /\ \E i \in 1..Len(cells) : cells[i].isLand /\ cells[i].height < 500
  /\ \E i \in 1..Len(cells) : ~cells[i].isLand /\ cellsBefore[i].height > 0

\* C19: when no cell has a positive height (a flat field or an empty mesh),
\* applySeaLevel in either mode classifies against the raw target sea level,
\* and for a target >= 0 it leaves every cell as water with height 0.
C19_FlatFieldAllWater ==
  (pc = "classified" /\ PositiveCells(cellsBefore) = {}) =>
     /\ Len(cells) = Len(cellsBefore)
     /\ \A i \in 1..Len(cells) :
           cells[i].isLand <=> cellsBefore[i].height > params.seaLevel
     /\ params.seaLevel >= 0 =>
           \A i \in 1..Len(cells) : ~cells[i].isLand /\ cells[i].height = 0

C19_Witness ==
  /\ pc = "classified"
  /\ params.continentMode
  /\ params.seaLevel = 0
  /\ Len(cellsBefore) = MaxSeaCells
  /\ PositiveCells(cellsBefore) = {}
  /\ \A i \in 1..Len(cells) : ~cells[i].isLand


\* ============ SpecSeaPass: applySeaLevel alone, or within a generation pass
\* Either one applySeaLevel call on a free height array (SpecSea), or a whole
\* generateMap pass (Spec), in which the classified cells then go through
\* tiny-island removal and border carving.
SeaPassInit == SeaInit \/ Init

SeaPassNext == SeaNext \/ Next

SpecSeaPass == SeaPassInit /\ [][SeaPassNext]_vars

Times(a, b) == (a * b) \div 1000

\* the outcomes of Math.random(), a number of [0, 1): its two extremes
RandomDraws == {0, 999}

\* DEFAULT_PARAMS.numBlobs
NumBlobs == 2

\* DEFAULT_PARAMS.secondaryPeakHeightRange
SecondaryPeakHeightRange == <<300, 700>>

\* generateRandomBlobInSafeZone; draws holds the outcomes of its five
\* Math.random() calls in the order in which the code makes them
GenerateRandomBlobInSafeZone(width, height, margin, maxRadius, peakHeight, draws) ==
  LET radius         == Times(draws[1], maxRadius)
      positionJitter == Times(maxRadius, 300)
      jitterX        == Times(draws[2] - 500, positionJitter)
      jitterY        == Times(draws[3] - 500, positionJitter)
  IN [x      |-> margin + Times(draws[4], width - 2 * margin) + jitterX,
      y      |-> margin + Times(draws[5], height - 2 * margin) + jitterY,
      radius |-> radius,
      height |-> peakHeight]

\* blobRadius of generateTerrain: 15% of the smaller dimension, doubled in
\* continental mode
BlobRadius(width, height, continentMode) ==
  LET MAX_BLOB_RADIUS == Times(Min(width, height), 150)
  IN IF continentMode THEN MAX_BLOB_RADIUS * 2 ELSE MAX_BLOB_RADIUS

TotalMargin(width, height, prm) ==
  BlobRadius(width, height, prm.continentMode) + prm.waterMargin

EffectiveNumBlobs(continentMode) ==
  IF continentMode
  THEN (IF Min(3, NumBlobs) >= 1 THEN Min(3, NumBlobs) ELSE 1)
  ELSE NumBlobs

\* the number of Math.random() calls that place the blobs: five for the main
\* blob, seven for each secondary blob
NumDraws(continentMode) == 5 + 7 * (EffectiveNumBlobs(continentMode) - 1)

\* the blobs array of generateTerrain: the main blob, then the secondary ones
GenerateBlobs(prm, width, height, draws) ==
  LET blobRadius  == BlobRadius(width, height, prm.continentMode)
      totalMargin == TotalMargin(width, height, prm)
      Secondary(i) ==
        LET at           == 5 + 7 * (i - 2)
            peakHeight   == SecondaryPeakHeightRange[1]
                            + Times(draws[at + 1],
                                    SecondaryPeakHeightRange[2] - SecondaryPeakHeightRange[1])
            minRadius    == Times(blobRadius, 600)
            maxRadius    == Times(blobRadius, 1200)
            variedRadius == minRadius + Times(draws[at + 2], maxRadius - minRadius)
        IN GenerateRandomBlobInSafeZone(width, height, totalMargin, variedRadius, peakHeight,
                                        [k \in 1..5 |-> draws[at + 2 + k]])
  IN [i \in 1..EffectiveNumBlobs(prm.continentMode) |->
        IF i = 1
        THEN GenerateRandomBlobInSafeZone(width, height, totalMargin, blobRadius, PeakHeight,
                                          [k \in 1..5 |-> draws[k]])
        ELSE Secondary(i)]

Abs(v) == IF v < 0 THEN 0 - v ELSE v

\* distance <= blob.radius, compared on the squares
WithinRadius(c, blob) ==
  LET dx == Abs(c[1] - blob.x)
      dy == Abs(c[2] - blob.y)
  IN /\ dx <= blob.radius
     /\ dy <= blob.radius
     /\ dx * dx + dy * dy <= blob.radius * blob.radius

\* what 0 / 0 gives: a number that is not greater than 0
NaN == Undefined

\* The height loop of generateTerrain.  calculateBlobHeight multiplies the peak
\* by exp(-d/r * falloff/2) and by 1 +/- sharpness/2, and continental mode by
\* 0.5 + 0.5 * noise: all of them positive and at most 1.05, so that the height
\* is positive exactly where the cell is within the radius of a blob.  The
\* model keeps the highest peak among these blobs.  A blob of radius 0 on the
\* centroid itself divides 0 by 0.
ApplyBlobHeights(cs, bs) ==
  LET Covering(i) == {b \in 1..Len(bs) : WithinRadius(cs[i].centroid, bs[b])}
      RawHeight(i) ==
        IF \E b \in Covering(i) : bs[b].radius = 0 THEN NaN
        ELSE IF Covering(i) = {} THEN 0
        ELSE LET top == CHOOSE b \in Covering(i) :
                          \A o \in Covering(i) : bs[o].height <= bs[b].height
             IN bs[top].height
  IN [i \in 1..Len(cs) |-> [cs[i] EXCEPT !.height = RawHeight(i)]]

\* the canvas of the terrain runs
TerrainWidth == Units(60)

TerrainHeight == Units(60)

\* spacing of the centroids of the terrain mesh
TerrainStep == Units(4)

\* waterMargin values of the terrain runs (the UI slider goes from 0 to 100)
TerrainMargins == {Units(5), Units(11)}

\* a mesh whose centroids form a lattice over the canvas; generateTerrain reads
\* nothing of a cell but its centroid
TerrainMesh ==
  LET perRow == TerrainWidth \div TerrainStep
      rows   == TerrainHeight \div TerrainStep
  IN [i \in 1..(perRow * rows) |->
        [id |-> i - 1,
         centroid |-> << ((i - 1) % perRow) * TerrainStep + TerrainStep \div 2,
                         ((i - 1) \div perRow) * TerrainStep + TerrainStep \div 2 >>,
         polygon |-> <<>>, neighbors |-> <<>>,
         height |-> 0, isLand |-> FALSE, featureId |-> Undefined]]

TerrainInit ==
  /\ NoProbe
  /\ pc = "terrainOnly"
  /\ cells = TerrainMesh
  /\ features = <<>>
  /\ coastalSegments = <<>>
  /\ loopIn = <<>>
  /\ loopOut = <<>>
  /\ calls = <<>>
  /\ carvedCount = 0
  /\ pubFeatures = <<>>
  /\ pubCells = <<>>
  /\ \E mode \in BOOLEAN : \E margin \in TerrainMargins :
       params = [seaLevel |-> DefaultSeaLevel, continentMode |-> mode, waterMargin |-> margin]

\* generateTerrain(mesh, params, width, height)
GenerateTerrainCall ==
  /\ pc = "terrainOnly"
  /\ \E draws \in [1..NumDraws(params.continentMode) -> RandomDraws] :
       LET bs == GenerateBlobs(params, TerrainWidth, TerrainHeight, draws)
           cs == ApplyBlobHeights(cells, bs)
       IN /\ blobs' = bs
          /\ cells' = cs
          /\ consoleLog' = IF \E i \in 1..Len(cs) : cs[i].height > 0
                           THEN consoleLog
                           ELSE Append(consoleLog, "No non-zero heights found")
  /\ pc' = "raised"
  /\ UNCHANGED <<features, coastalSegments, loopIn, loopOut, passVars,
                 countedEdges, repeatSegments, cellsBefore>>

TerrainNext == GenerateTerrainCall

SpecTerrain == TerrainInit /\ [][TerrainNext]_vars

\* C21: every blob centre produced by generateTerrain, main and secondary, lies
\* in the safe zone [m, width - m] x [m, height - m] with
\* m = blobRadius + waterMargin, whatever the random draws.
C21_BlobCentresInSafeZone ==
  pc = "raised" =>
    LET m == TotalMargin(TerrainWidth, TerrainHeight, params)
    IN \A b \in 1..Len(blobs) :
         /\ m <= blobs[b].x /\ blobs[b].x <= TerrainWidth - m
         /\ m <= blobs[b].y /\ blobs[b].y <= TerrainHeight - m

\* C22: after generateTerrain every cell with a positive height has its
\* centroid farther than waterMargin from each of the four map edges.
C22_NoHeightInWaterMargin ==
  pc = "raised" =>
    \A i \in 1..Len(cells) :
      cells[i].height > 0 =>
        /\ cells[i].centroid[1] > params.waterMargin
        /\ cells[i].centroid[1] < TerrainWidth - params.waterMargin
        /\ cells[i].centroid[2] > params.waterMargin
        /\ cells[i].centroid[2] < TerrainHeight - params.waterMargin

\* =================================== SpecTiny: the pass on a fine mesh
\* The tiny-island threshold is 1% of the cells, so that an island can be
\* below it only on a mesh of 200 cells or more.  The pass is taken up after
\* applySeaLevel, on a mesh of FineCols x FineCols square cells that covers
\* the canvas, with a single land cell and a pair of land cells next to each other.
FineSize == MapWidth \div FineCols

FineLine(k) == IF k = FineCols THEN MapWidth ELSE k * FineSize

FineNeighbors(r, c) ==
  SelectSeq(<< (r - 1) * FineCols + c, r * FineCols + c - 1,
               r * FineCols + c + 1, (r + 1) * FineCols + c >>,
            LAMBDA n : /\ n >= 0 /\ n < FineCols * FineCols
                       /\ (n \div FineCols = r \/ n % FineCols = c))

FineMesh ==
  ArrayOf([i \in 1..(FineCols * FineCols) |->
     LET r == (i - 1) \div FineCols
         c == (i - 1) % FineCols
     IN [id |-> i - 1,
         centroid |-> <<c * FineSize + FineSize \div 2, r * FineSize + FineSize \div 2>>,
         polygon |-> << <<FineLine(c), FineLine(r)>>, <<FineLine(c + 1), FineLine(r)>>,
                        <<FineLine(c + 1), FineLine(r + 1)>>, <<FineLine(c), FineLine(r + 1)>> >>,
         neighbors |-> FineNeighbors(r, c),
         height |-> 0, isLand |-> FALSE, featureId |-> Undefined]])

\* where the single-cell island may lie: the row above the middle row, away
\* from the map edges
SpeckSites ==
  {(FineCols \div 2 - 1) * FineCols + c + 1 : c \in 3..(FineCols - 4)}

\* where the two-cell island may begin: two places of the middle row
PairSites ==
  {(FineCols \div 2) * FineCols + c + 1 : c \in {3, FineCols \div 2}}

TinyInit ==
  /\ NoProbe
  /\ pc = "coastalEdges"
  /\ features = <<>>
  /\ coastalSegments = <<>>
  /\ loopIn = <<>>
  /\ loopOut = <<>>
  /\ calls = <<"generateVoronoiMesh", "generateTerrain", "applySeaLevel">>
  /\ carvedCount = 0
  /\ pubFeatures = <<>>
  /\ pubCells = <<>>
  /\ \E wm \in WaterMargins :
       params = [seaLevel |-> DefaultSeaLevel, continentMode |-> FALSE, waterMargin |-> wm]
  /\ \E speck \in SpeckSites : \E pair \in PairSites :
       cells = [i \in 1..(FineCols * FineCols) |->
                  IF i \in {speck, pair, pair + 1}
                  THEN [FineMesh[i] EXCEPT !.isLand = TRUE, !.height = PeakHeight]
                  ELSE FineMesh[i]]

TinyNext ==
  \/ FindCoastalEdgesStep
  \/ LabelFeaturesStep
  \/ PostProcessStep
  \/ BorderCarvingStep
  \/ PublishStep

SpecTiny == TinyInit /\ [][TinyNext]_vars

\* the Island features of a feature list, by position
IslandsOf(fs) == {k \in 1..Len(fs) : fs[k].type = "island"}

\* C28: every segment that buildCoastlinePaths receives has a landCellId whose
\* cell is land at that moment and belongs to an Island of the feature list
\* passed with it, also when tiny islands were turned to water and the
\* features relabelled after the segments were extracted.
C28_SegmentsBelongToIslands ==
  pc = "borderCarving" =>
    \A n \in 1..Len(coastalSegments) :
      LET i == FindCell(cells, coastalSegments[n].landCellId)
      IN /\ i # 0
         /\ cells[i].isLand
         /\ \E k \in IslandsOf(features) :
              coastalSegments[n].landCellId \in Range(features[k].cells)

\* C29: the tiny-island post-processing publishes no Island with
\* border = false and fewer than floor(0.01 * number of cells) cells, leaves
\* every cell of a removed island as water of height 0, and keeps the cell
\* sets of the islands that it does not remove.
C29_TinyIslandsGone ==
  [][ pc = "postProcess" =>
        LET least   == Len(cells) \div 100
            removed == {k \in IslandsOf(features) :
                          ~features[k].border /\ Len(features[k].cells) < least}
        IN /\ \A k \in IslandsOf(pubFeatures') :
                pubFeatures'[k].border \/ Len(pubFeatures'[k].cells) >= least
           /\ \A k \in removed : \A n \in 1..Len(features[k].cells) :
                LET i == FindCell(cells', features[k].cells[n])
                IN i # 0 /\ ~cells'[i].isLand /\ cells'[i].height = 0
           /\ {Range(pubFeatures'[k].cells) : k \in IslandsOf(pubFeatures')}
                = {Range(features[k].cells) : k \in IslandsOf(features) \ removed}
           /\ Cardinality(IslandsOf(pubFeatures'))
                = Cardinality(IslandsOf(features) \ removed) ]_vars

C29_Witness ==
  /\ pc = "borderCarving"
  /\ Cardinality(IslandsOf(pubFeatures)) = 1
  /\ \E k \in IslandsOf(pubFeatures) : pubFeatures[k].size = 2 /\ pubFeatures[k].hasBoundary
  /\ \E i \in 1..Len(cells) :
       /\ ~cells[i].isLand
       /\ \E n \in 1..Len(coastalSegments) : coastalSegments[n].landCellId = cells[i].id
====
